---- MODULE Spec2Model ----
(***************************************************************************)
(* OrbitalOS backend (backend/src/main.rs): the satellite registry behind  *)
(* Arc<Mutex<SatelliteService>>, the HTTP request handlers that read it     *)
(* and the background position updater that refreshes it every 30 seconds.  *)
(*                                                                          *)
(* The module satellite_service (SatelliteService::new,                     *)
(* get_all_satellites, update_satellite_positions) is declared at           *)
(* main.rs:1 but its file is not part of the sources; those three           *)
(* operations are modelled from the specification's sections 3, 4.1, 7.     *)
(***************************************************************************)
EXTENDS Integers, Sequences, FiniteSets, TLC

\* ------------------------------------------------------------------ bounds
NumHandlers == 2      \* requests in flight at once (worker threads)
MaxTicks == 2         \* interval ticks explored

\* --------------------------------------------------------------- constants
NumSats == 3          \* objects seeded by SatelliteService::new()
StatusOk == 200
StatusBadRequest == 400
StatusNotFound == 404

Handlers == 1..NumHandlers
Free == 0             \* the mutex has no owner
Updater == NumHandlers + 1
Malformed == "malformed"           \* a body web::Json cannot parse
NoBody == "none"                   \* a GET request carries no body
Bodies == {"object", "array"}      \* well-formed JSON bodies

GetRoutes == {"health", "info", "list"}
PostRoutes == {"analyze", "reserve"}
Routes == GetRoutes \cup PostRoutes
LockingRoutes == Routes \ {"info"}

\* The paths the routes are registered under.
RoutePath(r) ==
    CASE r = "health" -> "/health"
      [] r = "info" -> "/api/info"
      [] r = "list" -> "/api/satellites"
      [] r = "analyze" -> "/api/satellites/conjunction-analysis"
      [] r = "reserve" -> "/api/satellites/create-reservation"

\* Paths outside the API: the root, a file of the frontend, a page of the
\* single-page app that is no file.
StaticPaths == {"/", "/app.js", "/about"}

\* The binaries that can be built: without the feature embed_frontend, with
\* it and a frontend that has its index document, with it and one that has
\* none.
NoAssetsBuild == [embed |-> FALSE, files |-> {}]
Builds ==
    {NoAssetsBuild,
     [embed |-> TRUE, files |-> {"index.html", "app.js"}],
     [embed |-> TRUE, files |-> {"app.js"}]}

VARIABLES
    registry,     \* SatelliteService's satellites, in listing order
    lock,         \* owner of the Mutex: Free, a handler, or Updater
    poisoned,     \* the Mutex's poison flag
    hpc,          \* per request slot: position in the handler
    hreq,         \* per request slot: [route, body]
    hsnap,        \* per request slot: local `satellites`
    hresp,        \* per request slot: the HttpResponse built
    hacq,         \* per request slot: lock acquisitions of this request
    upc,          \* position of start_position_updater
    ui,           \* index of the next object the refresh pass recomputes
    pre,          \* registry values at the start of the running pass
    usats,        \* the updater's local `satellites`
    ticks,        \* interval ticks delivered so far (time in periods)
    updates,      \* update_satellite_positions calls started
    failedPasses, \* refresh passes that failed
    boundaries,   \* complete registries seen at refresh-pass boundaries
    completedPasses, \* refresh passes that ran to their end
    build,        \* the binary: feature embed_frontend and the files embedded
    dirSeen       \* per worker: static_assets.exists() in its app factory

vars == <<registry, lock, poisoned, hpc, hreq, hsnap, hresp, hacq,
          upc, ui, pre, usats, ticks, updates, failedPasses, boundaries, completedPasses,
          build, dirSeen>>

hvars == <<hpc, hreq, hsnap, hresp, hacq>>
uvars == <<upc, ui, pre, usats, ticks, updates, failedPasses, boundaries, completedPasses>>
avars == <<build, dirSeen>>

\* ------------------------------------------------- satellite_service (spec)
\* The opaque position model: where object id is at time t.
PositionModel(id, t) == (id * 3 + t * 5) % 7

\* A pass that stamps an object with a time before the one it carries.
RecomputeStale(obj, t) ==
    [id |-> obj.id, position |-> PositionModel(obj.id, t),
     last_updated |-> obj.last_updated - 1]

Recompute(obj, t) ==
    [id |-> obj.id, position |-> PositionModel(obj.id, t), last_updated |-> t]

SeedRegistry ==
    [i \in 1..NumSats |-> [id |-> i, position |-> PositionModel(i, 0), last_updated |-> 0]]

\* get_all_satellites(): an owned copy of the whole registry, in order.
get_all_satellites(reg) == reg

NoReq == [route |-> "none", body |-> NoBody, path |-> ""]
NoResp == [status |-> 0, kind |-> "none"]

\* ---------------------------------------------------------------- Init
\* The service, the request slots and the updater at process start.
InitCore ==
    /\ registry = SeedRegistry
    /\ lock = Free
    /\ poisoned = FALSE
    /\ hpc = [h \in Handlers |-> "idle"]
    /\ hreq = [h \in Handlers |-> NoReq]
    /\ hsnap = [h \in Handlers |-> <<>>]
    /\ hresp = [h \in Handlers |-> NoResp]
    /\ hacq = [h \in Handlers |-> 0]
    /\ upc = "tick"
    /\ ui = 0
    /\ pre = <<>>
    /\ usats = <<>>
    /\ ticks = 0
    /\ updates = 0
    /\ failedPasses = 0
    /\ boundaries = {SeedRegistry}
    /\ completedPasses = 0

\* The server is up: every worker has run its app factory, here in a build
\* without embedded frontend and with no frontend directory ("API will
\* still be available").
Init ==
    /\ InitCore
    /\ build = NoAssetsBuild
    /\ dirSeen = [h \in Handlers |-> "absent"]

\* Process start, before HttpServer runs the app factory of any worker.
AssetInit ==
    /\ InitCore
    /\ build \in Builds
    /\ dirSeen = [h \in Handlers |-> "unset"]

\* Requests are accepted once the workers have been started.
AllStarted == \A h \in Handlers : dirSeen[h] # "unset"

\* ------------------------------------------------------------- the Mutex
\* A lock that does not wait for its owner to release it.
CanLockIgnoringOwner(who) == TRUE

\* Mutex::lock() blocks the calling thread until the mutex has no owner.
CanLock(who) == lock = Free

\* ------------------------------------------------------- request handlers
Resp(status, kind, sats, count, text, time) ==
    [status |-> status, kind |-> kind, satellites |-> sats, count |-> count,
     text |-> text, time |-> time, reservation_id |-> ""]

\* json!({"reservation_id": "res_123456", "status": "created", ...})
ReservationResponse ==
    [Resp(StatusOk, "reservation", <<>>, 0, "created", 0)
        EXCEPT !.reservation_id = "res_123456"]

\* A router that calls the handler whatever the body looks like.
ReceiveSkippingExtraction(h) ==
    /\ AllStarted
    /\ hpc[h] \in {"idle", "dropped", "panicked"}
    /\ \E r \in Routes :
        \E b \in (IF r \in PostRoutes THEN Bodies \cup {Malformed} ELSE {NoBody}) :
            hreq' = [hreq EXCEPT ![h] = [route |-> r, body |-> b, path |-> RoutePath(r)]]
    /\ hresp' = [hresp EXCEPT ![h] = NoResp]
    /\ hpc' = [hpc EXCEPT ![h] = "call"]
    /\ hsnap' = [hsnap EXCEPT ![h] = <<>>]
    /\ hacq' = [hacq EXCEPT ![h] = 0]
    /\ UNCHANGED <<registry, lock, poisoned>>
    /\ UNCHANGED uvars
    /\ UNCHANGED avars

\* The router matches the request to a route and runs the route's
\* extractors.  web::Json<serde_json::Value> answers a body that does not
\* parse with 400 and the handler is never called.
Receive(h) ==
    /\ AllStarted
    /\ hpc[h] \in {"idle", "dropped", "panicked"}
    /\ \E r \in Routes :
        \E b \in (IF r \in PostRoutes THEN Bodies \cup {Malformed} ELSE {NoBody}) :
            /\ hreq' = [hreq EXCEPT ![h] = [route |-> r, body |-> b, path |-> RoutePath(r)]]
            /\ IF b = Malformed
               THEN /\ hresp' = [hresp EXCEPT ![h] =
                          Resp(StatusBadRequest, "error", <<>>, 0, "bad request", 0)]
                    /\ hpc' = [hpc EXCEPT ![h] = "respond"]
               ELSE /\ hresp' = [hresp EXCEPT ![h] = NoResp]
                    /\ hpc' = [hpc EXCEPT ![h] = "call"]
    /\ hsnap' = [hsnap EXCEPT ![h] = <<>>]
    /\ hacq' = [hacq EXCEPT ![h] = 0]
    /\ UNCHANGED <<registry, lock, poisoned>>
    /\ UNCHANGED uvars
    /\ UNCHANGED avars

\* A handler that reads the registry without waiting for the mutex.
AcquireWithoutWaiting(h) ==
    /\ hpc[h] = "call"
    /\ hreq[h].route \in LockingRoutes
    /\ hacq' = [hacq EXCEPT ![h] = @ + 1]
    /\ lock' = h
    /\ hpc' = [hpc EXCEPT ![h] = "serialize"]
    /\ hsnap' = [hsnap EXCEPT ![h] =
          IF hreq[h].route \in {"health", "list"}
          THEN get_all_satellites(registry) ELSE <<>>]
    /\ UNCHANGED <<registry, poisoned, hreq, hresp>>
    /\ UNCHANGED uvars
    /\ UNCHANGED avars

\* `data.satellite_service.lock().unwrap()` followed by the read made under
\* the guard.  On a poisoned mutex lock() returns Err and unwrap() panics;
\* the guard inside the error is dropped, so the mutex is free again.
Acquire(h) ==
    /\ hpc[h] = "call"
    /\ hreq[h].route \in LockingRoutes
    /\ CanLock(h)
    /\ hacq' = [hacq EXCEPT ![h] = @ + 1]
    /\ IF poisoned
       THEN /\ hpc' = [hpc EXCEPT ![h] = "panicked"]
            /\ UNCHANGED <<lock, hsnap>>
       ELSE /\ lock' = h
            /\ hpc' = [hpc EXCEPT ![h] = "serialize"]
            /\ hsnap' = [hsnap EXCEPT ![h] =
                  IF hreq[h].route \in {"health", "list"}
                  THEN get_all_satellites(registry) ELSE <<>>]
    /\ UNCHANGED <<registry, poisoned, hreq, hresp>>
    /\ UNCHANGED uvars
    /\ UNCHANGED avars

\* A handler whose guard outlives the call (kept across the response write).
ReturnKeepingGuard(h, resp) ==
    /\ hpc[h] = "serialize"
    /\ lock = h
    /\ hresp' = [hresp EXCEPT ![h] = resp]
    /\ hsnap' = [hsnap EXCEPT ![h] = <<>>]
    /\ hpc' = [hpc EXCEPT ![h] = "respond"]
    /\ UNCHANGED <<registry, lock, poisoned, hreq, hacq>>
    /\ UNCHANGED uvars
    /\ UNCHANGED avars

\* The guard is a local of the handler: it is dropped when the handler
\* returns, after the response has been built.
ReturnFromHandler(h, resp) ==
    /\ hpc[h] = "serialize"
    /\ lock = h
    /\ hresp' = [hresp EXCEPT ![h] = resp]
    /\ hsnap' = [hsnap EXCEPT ![h] = <<>>]
    /\ lock' = Free
    /\ hpc' = [hpc EXCEPT ![h] = "respond"]
    /\ UNCHANGED <<registry, poisoned, hreq, hacq>>
    /\ UNCHANGED uvars
    /\ UNCHANGED avars

health_check(h) ==
    /\ hreq[h].route = "health"
    /\ ReturnFromHandler(h, Resp(StatusOk, "health", <<>>, Len(hsnap[h]), "healthy", 0))

\* A list handler that reports one object less than it returns.
get_satellites_miscounting(h) ==
    /\ hreq[h].route = "list"
    /\ ReturnFromHandler(h, Resp(StatusOk, "list", hsnap[h], Len(hsnap[h]) - 1, "", 0))

get_satellites(h) ==
    /\ hreq[h].route = "list"
    /\ ReturnFromHandler(h, Resp(StatusOk, "list", hsnap[h], Len(hsnap[h]), "", 0))

analyze_conjunctions(h) ==
    /\ hreq[h].route = "analyze"
    /\ ReturnFromHandler(h, Resp(StatusOk, "analysis", <<>>, 0,
                                 "Conjunction analysis feature coming soon", ticks))

\* A reservation stub that records the request in the service.
create_reservation_storing(h) ==
    /\ hreq[h].route = "reserve"
    /\ hpc[h] = "serialize"
    /\ lock = h
    /\ registry' = [registry EXCEPT ![1] = Recompute(@, ticks + 1)]
    /\ hresp' = [hresp EXCEPT ![h] = ReservationResponse]
    /\ hsnap' = [hsnap EXCEPT ![h] = <<>>]
    /\ lock' = Free
    /\ hpc' = [hpc EXCEPT ![h] = "respond"]
    /\ UNCHANGED <<poisoned, hreq, hacq>>
    /\ UNCHANGED uvars
    /\ UNCHANGED avars

\* A reservation stub whose answer depends on the body it was sent.
create_reservation_echoing(h) ==
    /\ hreq[h].route = "reserve"
    /\ ReturnFromHandler(h, [ReservationResponse EXCEPT
            !.reservation_id = IF hreq[h].body = "object" THEN "res_123456" ELSE ""])

create_reservation(h) ==
    /\ hreq[h].route = "reserve"
    /\ ReturnFromHandler(h, ReservationResponse)

\* api_info takes no AppState: it builds a constant document.
api_info(h) ==
    /\ hpc[h] = "call"
    /\ hreq[h].route = "info"
    /\ hresp' = [hresp EXCEPT ![h] = Resp(StatusOk, "info", <<>>, Cardinality(Routes),
                                          "OrbitalOS Satellite API", 0)]
    /\ hpc' = [hpc EXCEPT ![h] = "respond"]
    /\ UNCHANGED <<registry, lock, poisoned, hreq, hsnap, hacq>>
    /\ UNCHANGED uvars
    /\ UNCHANGED avars

\* The response is written to the connection.
Respond(h) ==
    /\ hpc[h] = "respond"
    /\ hpc' = [hpc EXCEPT ![h] = "idle"]
    /\ hreq' = [hreq EXCEPT ![h] = NoReq]
    /\ hresp' = [hresp EXCEPT ![h] = NoResp]
    /\ hacq' = [hacq EXCEPT ![h] = 0]
    /\ UNCHANGED <<registry, lock, poisoned, hsnap>>
    /\ UNCHANGED uvars
    /\ UNCHANGED avars

\* The handlers are async fns without an .await in their bodies, and
\* Mutex::lock() blocks the thread instead of suspending the future: the
\* request future can only be dropped (client disconnect) outside the
\* handler's body, while the response is on its way.
SuspensionPoints == {"respond"}

\* The client disconnects: the request future and its locals are dropped.
Cancel(h) ==
    /\ hpc[h] \in SuspensionPoints
    /\ hpc' = [hpc EXCEPT ![h] = "dropped"]
    /\ hreq' = [hreq EXCEPT ![h] = NoReq]
    /\ hresp' = [hresp EXCEPT ![h] = NoResp]
    /\ UNCHANGED <<registry, lock, poisoned, hsnap, hacq>>
    /\ UNCHANGED uvars
    /\ UNCHANGED avars

HandlerStep(h) ==
    \/ Receive(h)
    \/ Acquire(h)
    \/ health_check(h)
    \/ get_satellites(h)
    \/ analyze_conjunctions(h)
    \/ create_reservation(h)
    \/ api_info(h)
    \/ Respond(h)
    \/ Cancel(h)

\* ------------------------------------------------- start_position_updater
\* interval.tick().await: the next period has elapsed.
Tick ==
    /\ upc = "tick"
    /\ ticks < MaxTicks
    /\ ticks' = ticks + 1
    /\ upc' = "lock1"
    /\ UNCHANGED <<registry, lock, poisoned, ui, pre, usats, updates, failedPasses, boundaries, completedPasses>>
    /\ UNCHANGED hvars
    /\ UNCHANGED avars

\* satellite_service.lock().unwrap(), the receiver of the update call.
\* A poisoned mutex makes unwrap() panic, which ends the spawned task.
UpdaterLockForUpdate ==
    /\ upc = "lock1"
    /\ CanLock(Updater)
    /\ IF poisoned
       THEN /\ upc' = "dead"
            /\ UNCHANGED <<lock, ui, pre, updates>>
       ELSE /\ lock' = Updater
            /\ upc' = "update"
            /\ ui' = 1
            /\ pre' = registry
            /\ updates' = updates + 1
    /\ UNCHANGED <<registry, poisoned, usats, ticks, failedPasses, boundaries, completedPasses>>
    /\ UNCHANGED hvars
    /\ UNCHANGED avars

\* update_satellite_positions(): the pass recomputes the objects in place,
\* one after the other, while the caller holds the guard.
update_satellite_positions ==
    /\ upc = "update"
    /\ ui <= NumSats
    /\ registry' = [registry EXCEPT ![ui] = Recompute(@, ticks)]
    /\ ui' = ui + 1
    /\ UNCHANGED <<lock, poisoned, upc, pre, usats, ticks, updates, failedPasses, boundaries, completedPasses>>
    /\ UNCHANGED hvars
    /\ UNCHANGED avars

\* A failed pass that leaves the objects it had already recomputed.
RegistryLeftInPlace == registry

\* What a failed pass leaves in the registry: the values it had before.
RegistryAfterFailure == pre

\* The pass fails (panics) before it has recomputed every object.  The
\* unwinding drops the temporary guard, which poisons and frees the mutex,
\* and ends the task spawned at main(): nothing restarts the loop.
UpdateFails ==
    /\ upc = "update"
    /\ ui <= NumSats
    /\ registry' = RegistryAfterFailure
    /\ poisoned' = TRUE
    /\ lock' = Free
    /\ upc' = "dead"
    /\ pre' = <<>>
    /\ failedPasses' = failedPasses + 1
    /\ UNCHANGED <<ui, usats, ticks, updates, boundaries, completedPasses>>
    /\ UNCHANGED hvars
    /\ UNCHANGED avars

\* An updater that binds the first guard to a local and so keeps it while
\* it requests the mutex again.
UpdaterKeepsGuard ==
    /\ upc = "update"
    /\ ui = NumSats + 1
    /\ upc' = "lock2"
    /\ ui' = 0
    /\ pre' = <<>>
    /\ boundaries' = boundaries \cup {registry}
    /\ completedPasses' = completedPasses + 1
    /\ UNCHANGED <<registry, lock, poisoned, usats, ticks, updates, failedPasses>>
    /\ UNCHANGED hvars
    /\ UNCHANGED avars

\* End of the statement `....update_satellite_positions();`: the temporary
\* guard is dropped before the second lock() is requested.
UpdaterUnlockAfterUpdate ==
    /\ upc = "update"
    /\ ui = NumSats + 1
    /\ lock' = Free
    /\ upc' = "lock2"
    /\ ui' = 0
    /\ pre' = <<>>
    /\ boundaries' = boundaries \cup {registry}
    /\ completedPasses' = completedPasses + 1
    /\ UNCHANGED <<registry, poisoned, usats, ticks, updates, failedPasses>>
    /\ UNCHANGED hvars
    /\ UNCHANGED avars

\* let service = satellite_service.lock().unwrap();
UpdaterLockForRead ==
    /\ upc = "lock2"
    /\ CanLock(Updater)
    /\ IF poisoned
       THEN /\ upc' = "dead"
            /\ UNCHANGED lock
       ELSE /\ lock' = Updater
            /\ upc' = "read"
    /\ UNCHANGED <<registry, poisoned, ui, pre, usats, ticks, updates, failedPasses, boundaries, completedPasses>>
    /\ UNCHANGED hvars
    /\ UNCHANGED avars

\* service.get_all_satellites() is the value of the block; `service` is
\* dropped at the closing brace.
UpdaterRead ==
    /\ upc = "read"
    /\ usats' = get_all_satellites(registry)
    /\ lock' = Free
    /\ upc' = "log"
    /\ UNCHANGED <<registry, poisoned, ui, pre, ticks, updates, failedPasses, boundaries, completedPasses>>
    /\ UNCHANGED hvars
    /\ UNCHANGED avars

\* A loop that starts the next pass without awaiting the interval.
UpdaterLoopWithoutTick ==
    /\ upc = "log"
    /\ usats' = <<>>
    /\ upc' = "lock1"
    /\ UNCHANGED <<registry, lock, poisoned, ui, pre, ticks, updates, failedPasses, boundaries, completedPasses>>
    /\ UNCHANGED hvars
    /\ UNCHANGED avars

\* info!("Updated positions for {} satellites", ...), then the loop repeats.
UpdaterLoop ==
    /\ upc = "log"
    /\ usats' = <<>>
    /\ upc' = "tick"
    /\ UNCHANGED <<registry, lock, poisoned, ui, pre, ticks, updates, failedPasses, boundaries, completedPasses>>
    /\ UNCHANGED hvars
    /\ UNCHANGED avars

start_position_updater ==
    \/ Tick
    \/ UpdaterLockForUpdate
    \/ update_satellite_positions
    \/ UpdateFails
    \/ UpdaterUnlockAfterUpdate
    \/ UpdaterLockForRead
    \/ UpdaterRead
    \/ UpdaterLoop

\* ------------------------------------------------------------------ Next
Next ==
    \/ \E h \in Handlers : Receive(h)
    \/ \E h \in Handlers : Acquire(h)
    \/ \E h \in Handlers : health_check(h)
    \/ \E h \in Handlers : get_satellites(h)
    \/ \E h \in Handlers : analyze_conjunctions(h)
    \/ \E h \in Handlers : create_reservation(h)
    \/ \E h \in Handlers : api_info(h)
    \/ \E h \in Handlers : Respond(h)
    \/ \E h \in Handlers : Cancel(h)
    \/ Tick
    \/ UpdaterLockForUpdate
    \/ update_satellite_positions
    \/ UpdateFails
    \/ UpdaterUnlockAfterUpdate
    \/ UpdaterLockForRead
    \/ UpdaterRead
    \/ UpdaterLoop

Spec == Init /\ [][Next]_vars

TypeOK ==
    /\ lock \in {Free, Updater} \cup Handlers
    /\ poisoned \in BOOLEAN
    /\ Len(registry) = NumSats
    /\ ticks \in 0..MaxTicks
    /\ updates \in 0..MaxTicks

\* ------------------------------------------- frontend assets (main.rs:263-303)
\* HttpServer calls the app factory once for every worker it starts, one
\* worker after the other; each call asks the filesystem again whether the
\* frontend directory exists.
StartWorker(h) ==
    /\ dirSeen[h] = "unset"
    /\ \A g \in Handlers : g < h => dirSeen[g] # "unset"
    /\ \E exists \in {"present", "absent"} :
          dirSeen' = [dirSeen EXCEPT ![h] = exists]
    /\ UNCHANGED <<registry, lock, poisoned, build>>
    /\ UNCHANGED hvars
    /\ UNCHANGED uvars

\* A factory that tries the embedded bundle before the directory.
RegisteredBundleFirst(h) ==
    IF build.embed THEN "embedded"
    ELSE IF dirSeen[h] = "present" THEN "files" ELSE "none"

\* What the factory of worker h registered for the paths outside the API:
\* actix_files::Files when it saw the directory, else the embedded handler
\* when the binary has one, else nothing.
Registered(h) ==
    IF dirSeen[h] = "present" THEN "files"
    ELSE IF build.embed THEN "embedded" ELSE "none"

\* A GET request for a path that is no API route reaches worker h.
ReceiveStatic(h) ==
    /\ AllStarted
    /\ hpc[h] \in {"idle", "dropped", "panicked"}
    /\ \E p \in StaticPaths :
          hreq' = [hreq EXCEPT ![h] = [route |-> "static", body |-> NoBody, path |-> p]]
    /\ hpc' = [hpc EXCEPT ![h] = "static"]
    /\ hresp' = [hresp EXCEPT ![h] = NoResp]
    /\ hsnap' = [hsnap EXCEPT ![h] = <<>>]
    /\ hacq' = [hacq EXCEPT ![h] = 0]
    /\ UNCHANGED <<registry, lock, poisoned>>
    /\ UNCHANGED uvars
    /\ UNCHANGED avars

\* req.path().trim_start_matches('/')
TrimSlash(p) ==
    CASE p = "/" -> ""
      [] p = "/app.js" -> "app.js"
      [] p = "/about" -> "about"

StaticAnswer(h, resp) ==
    /\ hpc[h] = "static"
    /\ hresp' = [hresp EXCEPT ![h] = resp]
    /\ hpc' = [hpc EXCEPT ![h] = "respond"]
    /\ UNCHANGED <<registry, lock, poisoned, hreq, hsnap, hacq>>
    /\ UNCHANGED uvars
    /\ UNCHANGED avars

NotFoundResponse == Resp(StatusNotFound, "notfound", <<>>, 0, "", 0)
FileResponse(kind, name) == Resp(StatusOk, kind, <<>>, 0, name, 0)

\* Files::new("/", static_assets).index_file("index.html"): the file under
\* the directory if the filesystem has it, the index document for the
\* root, 404 otherwise.
ServeFiles(h) ==
    /\ Registered(h) = "files"
    /\ \E found \in BOOLEAN :
          StaticAnswer(h,
              IF found
              THEN FileResponse("file", IF TrimSlash(hreq[h].path) = ""
                                        THEN "index.html" ELSE TrimSlash(hreq[h].path))
              ELSE NotFoundResponse)

\* EmbeddedDist::get(candidate).or_else(|| EmbeddedDist::get("index.html"))
EmbeddedAsset(path, files) ==
    LET candidate == IF TrimSlash(path) = "" THEN "index.html" ELSE TrimSlash(path)
    IN  IF candidate \in files THEN candidate
        ELSE IF "index.html" \in files THEN "index.html" ELSE ""

embedded_frontend_handler(h) ==
    /\ Registered(h) = "embedded"
    /\ StaticAnswer(h,
          IF EmbeddedAsset(hreq[h].path, build.files) # ""
          THEN FileResponse("embedded", EmbeddedAsset(hreq[h].path, build.files))
          ELSE NotFoundResponse)

\* A fallback that fails on the missing asset instead of answering 404.
DefaultFailsOnMissingAsset(h) ==
    /\ Registered(h) = "none"
    /\ StaticAnswer(h, Resp(500, "error", <<>>, 0, "", 0))

\* No service for the path: the App's default answer.
DefaultNotFound(h) ==
    /\ Registered(h) = "none"
    /\ StaticAnswer(h, NotFoundResponse)

\* The server from its start: the workers' factories, then requests for
\* API routes and for other paths.
AssetNext ==
    \/ \E h \in Handlers : StartWorker(h)
    \/ \E h \in Handlers : ReceiveStatic(h)
    \/ \E h \in Handlers : ServeFiles(h)
    \/ \E h \in Handlers : embedded_frontend_handler(h)
    \/ \E h \in Handlers : DefaultNotFound(h)
    \/ \E h \in Handlers : Receive(h)
    \/ \E h \in Handlers : Acquire(h)
    \/ \E h \in Handlers : health_check(h)
    \/ \E h \in Handlers : get_satellites(h)
    \/ \E h \in Handlers : analyze_conjunctions(h)
    \/ \E h \in Handlers : create_reservation(h)
    \/ \E h \in Handlers : api_info(h)
    \/ \E h \in Handlers : Respond(h)
    \/ \E h \in Handlers : Cancel(h)

AssetSpec == AssetInit /\ [][AssetNext]_vars

\* Scheduling assumed for the liveness claims: every task that can take a
\* step eventually takes it, a thread blocked in lock() eventually gets the
\* mutex if it is released again and again, and handlers return.
FairSpec ==
    /\ Spec
    /\ WF_vars(Tick)
    /\ SF_vars(UpdaterLockForUpdate)
    /\ WF_vars(update_satellite_positions)
    /\ WF_vars(UpdaterUnlockAfterUpdate)
    /\ SF_vars(UpdaterLockForRead)
    /\ WF_vars(UpdaterRead)
    /\ WF_vars(UpdaterLoop)
    /\ \A h \in Handlers :
          /\ WF_vars(health_check(h) \/ get_satellites(h)
                     \/ analyze_conjunctions(h) \/ create_reservation(h))
          /\ SF_vars(Acquire(h))

\* ================================================================ claims

\* C1: every list a reader holds (the handler's local copy or the response
\* built from it) equals a complete registry as it was at a refresh-pass
\* boundary: never a mix of objects of two passes.
C1_NoTornRead ==
    \A h \in Handlers :
        /\ (hpc[h] = "serialize" /\ hreq[h].route \in {"health", "list"})
              => hsnap[h] \in boundaries
        /\ hresp[h].kind = "list" => hresp[h].satellites \in boundaries

\* C1 witness: a reader holds a post-refresh list while the next pass is
\* half done (the live registry is at no boundary) and another reader waits.
C1_Witness ==
    \E h \in Handlers :
        /\ hresp[h].kind = "list"
        /\ hresp[h].satellites # SeedRegistry
        /\ upc = "update"
        /\ registry \notin boundaries
        /\ \E g \in Handlers : hpc[g] = "call" /\ hreq[g].route = "list"

\* C2: after a critical section has panicked, every caller that requests
\* the lock still acquires it: no handler fails at lock().unwrap().
C2_LockStaysUsable ==
    \A h \in Handlers : hpc[h] # "panicked"

\* C3: after a failed refresh pass the scheduler loop is still running.
C3_LoopSurvivesFailedPass ==
    failedPasses > 0 => upc # "dead"

\* C4: every tick starts exactly one update_satellite_positions call, and
\* at most one pass is in progress, which is the one of the current tick.
C4_OneRefreshPerTick ==
    /\ updates = (IF upc = "lock1" THEN ticks - 1 ELSE ticks)
    /\ updates - completedPasses - failedPasses \in {0, 1}
    /\ (updates - completedPasses - failedPasses = 1) <=> (upc = "update")
    /\ upc = "update" => lock = Updater

C4_Witness ==
    /\ ticks = MaxTicks
    /\ updates = MaxTicks
    /\ upc = "update"
    /\ completedPasses = MaxTicks - 1

\* C5: the scheduler runs for ever: after the k-th refresh a (k+1)-th one
\* is eventually started (as long as the explored horizon allows a tick).
C5_RefreshRecurs ==
    \A k \in 1..(MaxTicks - 1) : (updates = k) ~> (updates = k + 1)

\* C6: a handler acquires the lock at most once per request and does not
\* own it while it serializes its response.
C6_LockOnceAndNotWhileSerializing ==
    \A h \in Handlers :
        /\ hacq[h] <= 1
        /\ hpc[h] = "serialize" => lock # h

\* C7: a handler that is at a point where its request can be cancelled, or
\* whose request was cancelled, does not own the lock.
C7_NoLockAtCancellationPoint ==
    \A h \in Handlers :
        hpc[h] \in (SuspensionPoints \cup {"dropped"}) => lock # h

\* C7 witness: a request cancelled after its handler had taken the lock.
C7_Witness ==
    \E h \in Handlers :
        /\ hpc[h] = "dropped"
        /\ hacq[h] = 1
        /\ lock # h

\* C8: no step of a request handler (the steps that change a request
\* slot) changes the registry; a step that changes it belongs to the
\* updater's refresh pass.
C8_HandlersLeaveRegistry ==
    [][ /\ hvars' # hvars => registry' = registry
        /\ registry' # registry => (upc = "update" /\ lock = Updater) ]_vars

\* C8 witness: a POST stub has answered after a refresh has run.
C8_Witness ==
    \E h \in Handlers :
        /\ hpc[h] = "respond"
        /\ hreq[h].route \in PostRoutes
        /\ hreq[h].body \in Bodies
        /\ hresp[h].status = StatusOk
        /\ completedPasses >= 1
        /\ registry \in boundaries

\* C9: GET /health and GET /api/info never fail: their handlers do not
\* panic and the response they build is a success.
C9_HealthAndInfoSucceed ==
    \A h \in Handlers :
        hreq[h].route \in {"health", "info"} =>
            /\ hpc[h] # "panicked"
            /\ hpc[h] = "respond" => hresp[h].status = StatusOk

\* C10: after a failed refresh pass the registry is the one the pass
\* started from: no object carries the time stamp of the failed pass.
C10_FailedPassKeepsRegistry ==
    failedPasses > 0 =>
        /\ registry \in boundaries
        /\ \A i \in 1..NumSats : registry[i].last_updated = ticks - 1

\* C10 witness: a pass that failed after it had recomputed some objects.
C10_Witness ==
    /\ failedPasses = 1
    /\ upc = "dead"
    /\ ui > 1
    /\ ticks = MaxTicks

\* The registry a reader can see: the one the running pass started from
\* while a pass holds the mutex, the live one otherwise.
Committed == IF upc = "update" THEN pre ELSE registry

\* The lists currently held by readers: handler locals, responses under
\* way, and the updater's export.
HeldLists ==
    {hsnap[h] : h \in {g \in Handlers : hsnap[g] # <<>>}}
        \cup {hresp[h].satellites : h \in {g \in Handlers : hresp[g].kind = "list"}}
        \cup (IF usats # <<>> THEN {usats} ELSE {})

\* A step in which handler h reads the registry.
ReadsRegistry(h) == hsnap'[h] # hsnap[h] /\ hsnap'[h] # <<>>

\* C11: between two refresh passes every read returns the same data: each
\* read returns the visible registry, and the visible registry changes only
\* when a pass completes.
C11_ReadsStableBetweenPasses ==
    [][ /\ \A h \in Handlers : ReadsRegistry(h) => hsnap'[h] = Committed
        /\ completedPasses' = completedPasses => Committed' = Committed ]_vars

\* C11 witness: two readers hold the same post-refresh list read between
\* the first pass and the second.
C11_Witness ==
    \E h, g \in Handlers :
        /\ h # g
        /\ hresp[h].kind = "list" /\ hresp[g].kind = "list"
        /\ hresp[h].satellites = hresp[g].satellites
        /\ hresp[h].satellites # SeedRegistry
        /\ completedPasses = 1

\* C12: last_updated never decreases: object by object, the visible
\* registry only moves forward in time, and a list read now carries, for
\* every object, a last_updated no older than in any list still held.
C12_LastUpdatedMonotonic ==
    [][ /\ \A i \in 1..NumSats :
              /\ Committed'[i].id = Committed[i].id
              /\ Committed'[i].last_updated >= Committed[i].last_updated
        /\ \A h \in Handlers : ReadsRegistry(h) =>
              \A old \in HeldLists : \A i \in 1..NumSats :
                  hsnap'[h][i].last_updated >= old[i].last_updated ]_vars

\* C12 witness: an older list and a newer one are held at the same time.
C12_Witness ==
    \E h, g \in Handlers :
        /\ hresp[h].kind = "list" /\ hresp[g].kind = "list"
        /\ \A i \in 1..NumSats :
              hresp[h].satellites[i].last_updated < hresp[g].satellites[i].last_updated

\* C13: the count of a list response is the length of its satellites list,
\* which holds the seeded ids, all of them and in order, whatever the
\* number of passes.
C13_CountMatchesList ==
    \A h \in Handlers :
        hresp[h].kind = "list" =>
            /\ hresp[h].count = Len(hresp[h].satellites)
            /\ hresp[h].count = NumSats
            /\ \A i \in 1..NumSats : hresp[h].satellites[i].id = i

\* C13 witness: a list response built after every explored pass.
C13_Witness ==
    \E h \in Handlers :
        /\ hresp[h].kind = "list"
        /\ hresp[h].count = NumSats
        /\ completedPasses = MaxTicks
        /\ hresp[h].satellites = registry

\* C14: every response of create_reservation to a well-formed body has a
\* non-empty reservation_id and status "created", and any two of them are
\* equal, whatever the bodies and the registry.
C14_ReservationStub ==
    \A h \in Handlers :
        (hpc[h] = "respond" /\ hreq[h].route = "reserve" /\ hreq[h].body \in Bodies) =>
            /\ hresp[h].status = StatusOk
            /\ hresp[h].reservation_id # ""
            /\ hresp[h].text = "created"
            /\ \A g \in Handlers :
                  (hpc[g] = "respond" /\ hreq[g].route = "reserve" /\ hreq[g].body \in Bodies)
                      => hresp[g] = hresp[h]

\* C14 witness: two reservations with different bodies have been answered,
\* after the registry was refreshed.
C14_Witness ==
    \E h, g \in Handlers :
        /\ hpc[h] = "respond" /\ hpc[g] = "respond"
        /\ hreq[h].route = "reserve" /\ hreq[g].route = "reserve"
        /\ hreq[h].body = "object" /\ hreq[g].body = "array"
        /\ registry # SeedRegistry

\* The variables of the other request slots.
OtherSlots(h) ==
    [g \in Handlers \ {h} |-> <<hpc[g], hreq[g], hsnap[g], hresp[g], hacq[g]>>]

\* A step in which slot h receives a request with a malformed body, and one
\* in which the client of slot h disconnects.
MalformedArrives(h) == hreq'[h] # hreq[h] /\ hreq'[h].body = Malformed
Disconnects(h) == hpc[h] # "dropped" /\ hpc'[h] = "dropped"

\* C18: a malformed body is answered 4xx without the handler being called,
\* and neither it nor a client disconnect touches the registry, the lock,
\* the updater or any other request.
C18_RequestErrorsContained ==
    [][ \A h \in Handlers :
          /\ MalformedArrives(h) =>
                /\ hresp'[h].status = StatusBadRequest
                /\ hpc'[h] = "respond"
          /\ (MalformedArrives(h) \/ Disconnects(h)) =>
                /\ registry' = registry
                /\ lock' = lock /\ lock' # h
                /\ poisoned' = poisoned
                /\ uvars' = uvars
                /\ OtherSlots(h)' = OtherSlots(h)
          /\ hreq[h].body = Malformed =>
                (hacq'[h] = 0 /\ hpc'[h] \in {"respond", "idle", "dropped"}) ]_vars

\* C18 witness: one request was refused for its body, another was dropped
\* after its handler ran, and a pass is running.
C18_Witness ==
    \E h, g \in Handlers :
        /\ hreq[h].body = Malformed /\ hresp[h].status = StatusBadRequest
        /\ hpc[g] = "dropped" /\ hacq[g] = 1
        /\ upc = "update" /\ ui > 1

\* C19: between the update of a tick and the read of the same tick no
\* handler owns the mutex.
C19_UpdateThenReadAtomic ==
    upc = "lock2" => lock \notin Handlers

\* C20: the updater does not own the mutex when it requests it, no handler
\* requests it while owning it, and, as long as no pass has failed, whoever
\* waits for the mutex gets it.
C20_NoDeadlock ==
    /\ [](upc \in {"lock1", "lock2"} => lock # Updater)
    /\ [](\A h \in Handlers : hpc[h] = "call" => lock # h)
    /\ (upc = "lock1") ~> (upc = "update")
    /\ (upc = "lock2") ~> (upc = "read")
    /\ \A h \in Handlers :
          (hpc[h] = "call" /\ hreq[h].route \in LockingRoutes)
              ~> (lock = h \/ failedPasses > 0)

\* C20 witness: the updater waits for its second lock while one handler
\* owns the mutex and another waits for it.
C20_Witness ==
    /\ upc = "lock2"
    /\ \E h, g \in Handlers :
          /\ lock = h
          /\ hpc[g] = "call" /\ hreq[g].route \in LockingRoutes

\* A request for a path outside the API that worker h has answered.
StaticAnswered(h) == hpc[h] = "respond" /\ hreq[h].route = "static"

\* C15 as claimed: a worker that saw the directory serves from it, bundle
\* or not; a worker with only the bundle answers a path the bundle lacks
\* with the index document, never with 404.
C15_BundleAlwaysFallsBackToIndex ==
    \A h \in Handlers : StaticAnswered(h) =>
        /\ dirSeen[h] = "present" => hresp[h].kind \in {"file", "notfound"}
        /\ (dirSeen[h] = "absent" /\ build.embed
                /\ TrimSlash(hreq[h].path) \notin build.files)
              => (hresp[h].status = StatusOk /\ hresp[h].text = "index.html")

\* C15 amended: ... with the index document when the bundle has one, and
\* with 404 when it has none.
C15_DirectoryFirstThenBundleIndex ==
    \A h \in Handlers : StaticAnswered(h) =>
        /\ dirSeen[h] = "present" => hresp[h].kind \in {"file", "notfound"}
        /\ (dirSeen[h] = "absent" /\ build.embed
                /\ TrimSlash(hreq[h].path) \notin build.files)
              => IF "index.html" \in build.files
                 THEN hresp[h].status = StatusOk /\ hresp[h].kind = "embedded"
                      /\ hresp[h].text = "index.html"
                 ELSE hresp[h].status = StatusNotFound

\* C15 witness: in a binary with a bundle, one worker that saw the
\* directory has served a file from it and one that did not has answered a
\* page of the app with the bundle's index document.
C15_Witness ==
    /\ build.embed
    /\ \E h, g \in Handlers :
          /\ StaticAnswered(h) /\ dirSeen[h] = "present" /\ hresp[h].kind = "file"
          /\ StaticAnswered(g) /\ dirSeen[g] = "absent" /\ hreq[g].path = "/about"
          /\ hresp[g].text = "index.html"

\* C16: with no directory and no bundle every path outside the API is
\* answered 404, and the API routes answer well-formed requests with 200.
C16_NoAssetsNotFoundApiOk ==
    \A h \in Handlers :
        (hpc[h] = "respond" /\ Registered(h) = "none") =>
            /\ hreq[h].route = "static" => hresp[h].status = StatusNotFound
            /\ (hreq[h].route \in Routes /\ hreq[h].body # Malformed)
                  => hresp[h].status = StatusOk

\* C16 witness: without assets, one request outside the API has its 404
\* and one API request its 200.
C16_Witness ==
    /\ \A h \in Handlers : Registered(h) = "none"
    /\ \E h, g \in Handlers :
          /\ StaticAnswered(h) /\ hresp[h].status = StatusNotFound
          /\ hpc[g] = "respond" /\ hreq[g].route = "list" /\ hresp[g].status = StatusOk

\* C17: all workers of a process serve the paths outside the API from the
\* same source.
C17_OneSourcePerProcess ==
    \A h, g \in Handlers :
        (dirSeen[h] # "unset" /\ dirSeen[g] # "unset") => Registered(h) = Registered(g)

====
